---- MODULE Spec2Model ----
(***************************************************************************)
(* Model of script.js: the adaptive trivia quiz (QuizApp, Quiz, Player,    *)
(* Question, calculateDificultyLevel and quizFlowGenerator).               *)
(*                                                                         *)
(* Indices are the script's 0-based indices; the k-th element of a         *)
(* JavaScript array a is a[k + 1] here.                                    *)
(*                                                                         *)
(* The specifications share the handlers:                                  *)
(*   Spec      the page: a handler runs only when the control it is        *)
(*             attached to can be clicked (answer buttons enabled,         *)
(*             next button displayed, final-score panel displayed);        *)
(*   FairSpec  Spec, with the finalize timer eventually running;           *)
(*   SpecCalls the handlers invoked in any order, guarded only by the      *)
(*             conditions in their own code;                               *)
(*   SpecCalc  calculateDificultyLevel applied to bounded arguments;       *)
(*   SpecRecord Player.recordQuizAttempt applied to bounded arguments.     *)
(***************************************************************************)
EXTENDS Integers, Sequences, FiniteSets, TLC

\* ---------------------------------------------------------------- bounds
MaxQ == 3            \* longest batch the first fetch returns
MaxQRestart == 2     \* longest batch a restart fetches
MaxAttempts == 2     \* quiz attempts started (initializeQuiz runs)
MaxAnswered == 20    \* largest denominator tried in SpecCalc
MaxQCalls == 2       \* longest batch fetched in SpecCalls
MaxCalls == 4        \* handler calls made in SpecCalls
MaxTotal == 40       \* largest totalPoints tried in SpecRecord
MaxRecords == 1      \* recordQuizAttempt calls made in SpecRecord

\* ------------------------------------------------------------ data model
Difficulties == {"easy", "medium", "hard"}

\* Answer texts: the correct answer of the question with identity i is the
\* text i, and one text that is the correct answer of no question.
WrongChoice == 0
Choices == 0..MaxQ

\* class Question: the text is represented by the question's identity.
Question == [id : 1..MaxQ, difficultyLevel : Difficulties, correctAns : Choices]

\* Question.answerChoices: the correct answer among incorrect ones.
answerChoices(q) == {q.correctAns, WrongChoice}

\* undefined, where an answer text is expected.
NoAnswer == -1

\* undefined, where a Question is expected.
NoQ == [id |-> 0, difficultyLevel |-> "none", correctAns |-> NoAnswer]

\* jsonData.results.map(...): one Question per result, of any difficulty,
\* each with its own correct answer; the result list may be empty.
Batches ==
  UNION { { b \in [1..n -> Question] :
              \A i \in 1..n : b[i].id = i /\ b[i].correctAns = i } : n \in 0..MaxQ }

\* Mutant: the comparison written as an assignment, which is always truthy.
validateAnswer_assigns(q, userSelectedAnswer) == userSelectedAnswer = userSelectedAnswer

\* Question.validateAnswer
validateAnswer(q, userSelectedAnswer) == userSelectedAnswer = q.correctAns

\* Mutant: inclusive thresholds.
calculateDificultyLevel_inclusive(c, n) ==
  IF 10 * c >= 7 * n THEN "hard"
  ELSE IF 10 * c >= 4 * n THEN "medium"
  ELSE "easy"

\* calculateDificultyLevel(correctCount / qIndex).  The argument is kept as
\* the pair the generator divides.  IEEE-754 division is correctly rounded
\* and monotone, and for denominators this small no quotient other than
\* 7/10 (4/10) rounds to the double 0.7 (0.4), so c / n > 0.7 in the script
\* is 10 * c > 7 * n on the integers.
calculateDificultyLevel(c, n) ==
  IF 10 * c > 7 * n THEN "hard"
  ELSE IF 10 * c > 4 * n THEN "medium"
  ELSE "easy"

\* Mutant: the two return values swapped, which puts the target last.
sortComparator_swapped(q1, q2, targetDiff) ==
  IF q1.difficultyLevel = targetDiff /\ q2.difficultyLevel # targetDiff THEN {1}
  ELSE IF q2.difficultyLevel = targetDiff /\ q1.difficultyLevel # targetDiff THEN {-1}
  ELSE {-1, 0, 1}

\* The comparator passed to remainingQs.sort: the set of values it can
\* return for the pair (q1, q2); Math.random() - 0.5 may have either sign.
sortComparator(q1, q2, targetDiff) ==
  IF q1.difficultyLevel = targetDiff /\ q2.difficultyLevel # targetDiff THEN {-1}
  ELSE IF q2.difficultyLevel = targetDiff /\ q1.difficultyLevel # targetDiff THEN {1}
  ELSE {-1, 0, 1}

arrangements(s) ==
  { p \in [1..Len(s) -> { s[i] : i \in 1..Len(s) }] :
      \A i \in 1..Len(s) : \E j \in 1..Len(s) : p[j] = s[i] }

\* Mutant: the sorted copy is never written back.
sortOutcomes_discarded(s, targetDiff) == {s}

\* Array.prototype.sort with that comparator: a permutation of the array in
\* which no pair stands against a verdict the comparator can only give one
\* way.  Pairs the comparator decides at random may come out in any order.
\* (The comparator is inconsistent only within a class, target or not; the
\* insertion, merge and partition steps of the engines' sorts move a
\* question across the class boundary only on a verdict between the
\* classes, which is never random.)
sortOutcomes(s, targetDiff) ==
  { p \in arrangements(s) :
      \A i \in 1..Len(p) : \A j \in (i + 1)..Len(p) :
        \E c \in sortComparator(p[i], p[j], targetDiff) : c <= 0 }

\* Whether the double (pointsEarned / totalPoints) * 100 falls short of an
\* exact k + 0.5.  The quotient and the product are each rounded to 53 bits;
\* for totalPoints below 200 the product differs from the exact value by
\* enough to change Math.round only for the quotient 23/40, where it is
\* 57.49999999999999 instead of 57.5.
productFallsShort(pointsEarned, totalPoints) == 40 * pointsEarned = 23 * totalPoints

\* Math.round((pointsEarned / totalPoints) * 100); 0/0 is NaN and k/0 is
\* Infinity in JavaScript.  Math.round rounds the double it is given to the
\* nearest integer, a half upwards.
roundPercent(pointsEarned, totalPoints) ==
  IF totalPoints = 0
  THEN (IF pointsEarned = 0 THEN "NaN" ELSE "Infinity")
  ELSE IF productFallsShort(pointsEarned, totalPoints)
  THEN (100 * pointsEarned) \div totalPoints
  ELSE (200 * pointsEarned + totalPoints) \div (2 * totalPoints)

\* ------------------------------------------------------------------ state
VARIABLES
  allQuestions,     \* Quiz.allQuestions
  currentQIndex,    \* Quiz.currentQIndex
  totalScore,       \* Quiz.totalScore
  quizRunning,      \* Quiz.quizRunning
  recentScore,      \* Player.recentScore
  allScores,        \* Player.allScores
  qGen,             \* Quiz.qGen: the generator object and its locals
  timers,           \* pending setTimeout(() => this.finishQuiz(), 1200)
  fetches,          \* fetchQuestionsFromAPI calls awaiting the response
  shownQ,           \* the question rendered into #question-text / #answers
  answersEnabled,   \* the .answer-btn buttons exist and are not disabled
  nextBtnShown,     \* #next-btn style.display = 'block'
  finalScoreShown,  \* #final-score style.display = 'block'
  logged,           \* the generator's last console.log of this attempt
  events,           \* what the attempt has shown so far, in order
  attempt,          \* number of initializeQuiz runs
  lastOp,           \* the handler that ran last, with its argument
  calls,            \* SpecCalls: handler calls made so far
  perfArgs,         \* SpecCalc: arguments of calculateDificultyLevel
  perfResult        \* SpecCalc: its result

progVars == <<allQuestions, currentQIndex, totalScore, quizRunning, recentScore,
              allScores, qGen, timers, fetches>>
domVars == <<shownQ, answersEnabled, nextBtnShown, finalScoreShown>>
obsVars == <<logged, events, attempt>>
calcVars == <<perfArgs, perfResult>>
vars == <<allQuestions, currentQIndex, totalScore, quizRunning, recentScore,
          allScores, qGen, timers, fetches, shownQ, answersEnabled, nextBtnShown,
          finalScoreShown, logged, events, attempt, lastOp, calls, perfArgs, perfResult>>

NoLog == [correct |-> 0, answered |-> 0, target |-> "none"]

\* function* quizFlowGenerator: a fresh generator object (not yet started).
quizFlowGenerator == [state |-> "fresh", qIndex |-> 0, correctCount |-> 0, q |-> NoQ]

\* Mutant: correctCount declared inside the loop, so it restarts at every
\* question.
genLoop_resetsCount(qIndex, correctCount, qs) ==
  IF qIndex < Len(qs)
  THEN [state |-> "suspended", qIndex |-> qIndex, correctCount |-> 0,
        q |-> qs[qIndex + 1]]
  ELSE [state |-> "done", qIndex |-> qIndex, correctCount |-> correctCount, q |-> NoQ]

\* The while-loop head of the generator: either suspend at the yield with
\* the question at qIndex captured in q, or return.
genLoop(qIndex, correctCount, qs) ==
  IF qIndex < Len(qs)
  THEN [state |-> "suspended", qIndex |-> qIndex, correctCount |-> correctCount,
        q |-> qs[qIndex + 1]]
  ELSE [state |-> "done", qIndex |-> qIndex, correctCount |-> correctCount, q |-> NoQ]

\* Mutant: the cut one place early, so the question just answered is sorted
\* with the rest.
reorderStart_early(qIndex) == qIndex - 1

\* The index at which the generator cuts the list: slice(qIndex) is sorted,
\* slice(0, qIndex) is kept.
reorderStart(qIndex) == qIndex

\* Mutant: the slice starts one place late and loses a question.
sliceFrom_late(qs, from) == SubSeq(qs, from + 2, Len(qs))

\* quizObj.allQuestions.slice(from) and quizObj.allQuestions.slice(0, to).
sliceFrom(qs, from) == SubSeq(qs, from + 1, Len(qs))
sliceTo(qs, to) == SubSeq(qs, 1, to)

\* qGen.next(playerAnswer) on a suspended generator: the set of possible
\* results [gen, qs, log], one per outcome of the sort.
genResume(g, qs, playerAnswer) ==
  LET isRightAnswer == validateAnswer(g.q, playerAnswer)
      correctCount == IF isRightAnswer THEN g.correctCount + 1 ELSE g.correctCount
      qIndex == g.qIndex + 1
  IN IF qIndex < Len(qs) /\ qIndex > 0
     THEN LET targetDiff == calculateDificultyLevel(correctCount, qIndex)
              cut == reorderStart(qIndex)
          IN { [gen |-> genLoop(qIndex, correctCount, sliceTo(qs, cut) \o remainingQs),
                qs |-> sliceTo(qs, cut) \o remainingQs,
                log |-> [correct |-> correctCount, answered |-> qIndex,
                         target |-> targetDiff]] :
               remainingQs \in sortOutcomes(sliceFrom(qs, cut), targetDiff) }
     ELSE { [gen |-> genLoop(qIndex, correctCount, qs), qs |-> qs, log |-> logged] }

\* qGen.next(x) in any generator state.
genNext(g, qs, x) ==
  CASE g.state = "fresh" -> { [gen |-> genLoop(0, 0, qs), qs |-> qs, log |-> logged] }
    [] g.state = "suspended" -> genResume(g, qs, x)
    [] OTHER -> { [gen |-> g, qs |-> qs, log |-> logged] }

\* ----------------------------------------------------------------- events
\* questionReady: displayCurrentQuestion rendered question q.
EvReady(q) == [type |-> "questionReady", q |-> q.id, shown |-> q.id,
               answer |-> NoAnswer, score |-> 0, total |-> 0]
\* answerScored: selectAnswer scored allQuestions[currentQIndex] = q for the
\* answer a clicked on the rendered question sq.
EvScored(q, sq, a) == [type |-> "answerScored", q |-> q.id, shown |-> sq.id,
                       answer |-> a, score |-> 0, total |-> 0]
\* quizComplete: finishQuiz showed s out of t.
EvComplete(s, t) == [type |-> "quizComplete", q |-> 0, shown |-> 0,
                     answer |-> NoAnswer, score |-> s, total |-> t]

\* Mutant: the history assigned instead of pushed to.
pushAttempt_assigns(scores, entry) == <<entry>>

\* this.allScores.push(entry)
pushAttempt(scores, entry) == Append(scores, entry)

\* Player.recordQuizAttempt: the entry pushed onto allScores.
recordQuizAttempt(pointsEarned, totalPoints) ==
  [score |-> pointsEarned, total |-> totalPoints,
   percentage |-> roundPercent(pointsEarned, totalPoints)]

\* ------------------------------------------------------------------- Init
\* The page after DOMContentLoaded: new QuizApp() has run and init() is
\* waiting for the first fetch.  The markup hides the quiz and final-score
\* panels and the next button until the script shows them.
Init ==
  /\ allQuestions = <<>>
  /\ currentQIndex = 0
  /\ totalScore = 0
  /\ quizRunning = FALSE
  /\ recentScore = 0
  /\ allScores = <<>>
  /\ qGen = [state |-> "none", qIndex |-> 0, correctCount |-> 0, q |-> NoQ]
  /\ timers = 0
  /\ fetches = 1
  /\ shownQ = NoQ
  /\ answersEnabled = FALSE
  /\ nextBtnShown = FALSE
  /\ finalScoreShown = FALSE
  /\ logged = NoLog
  /\ events = <<>>
  /\ attempt = 0
  /\ lastOp = <<"init">>
  /\ calls = 0
  /\ perfArgs = <<0, 1>>
  /\ perfResult = "easy"

\* ---------------------------------------------------------------- handlers
\* Mutant: finishQuiz that leaves quizRunning as it is.
finishQuiz_keepsRunning(evs) ==
  /\ quizRunning' = quizRunning
  /\ allScores' = pushAttempt(allScores, recordQuizAttempt(totalScore', Len(allQuestions')))
  /\ finalScoreShown' = TRUE
  /\ events' = Append(evs, EvComplete(totalScore', Len(allQuestions')))

\* Quiz.finishQuiz, given the event list evs it extends.
finishQuiz(evs) ==
  /\ quizRunning' = FALSE
  /\ allScores' = pushAttempt(allScores, recordQuizAttempt(totalScore', Len(allQuestions')))
  /\ finalScoreShown' = TRUE
  /\ events' = Append(evs, EvComplete(totalScore', Len(allQuestions')))

\* Quiz.displayCurrentQuestion, reading the fields as the caller left them
\* (running is this.quizRunning on entry).
displayCurrentQuestion(evs, running) ==
  IF currentQIndex' >= Len(allQuestions')
  THEN /\ finishQuiz(evs)
       /\ UNCHANGED <<shownQ, answersEnabled, nextBtnShown>>
  ELSE /\ shownQ' = allQuestions'[currentQIndex' + 1]
       /\ answersEnabled' = TRUE
       /\ nextBtnShown' = FALSE
       /\ events' = Append(evs, EvReady(allQuestions'[currentQIndex' + 1]))
       /\ quizRunning' = running
       /\ UNCHANGED <<allScores, finalScoreShown>>

\* Mutant: the first question displayed whatever the generator returned.
displaysFirst_always(gen) == TRUE

\* if (!start.done) { this.displayCurrentQuestion(); }
displaysFirst(gen) == gen.state # "done"

\* Mutant: initializeQuiz without the score reset.
initializeQuiz_keepsScore(started) ==
  /\ currentQIndex' = 0
  /\ totalScore' = totalScore
  /\ recentScore' = 0
  /\ qGen' = started.gen
  /\ IF displaysFirst(started.gen)
     THEN displayCurrentQuestion(<<>>, TRUE)
     ELSE /\ quizRunning' = TRUE
          /\ events' = <<>>
          /\ UNCHANGED <<allScores, finalScoreShown, shownQ, answersEnabled, nextBtnShown>>

\* Quiz.initializeQuiz, after allQuestions and qGen have been replaced.
initializeQuiz(started) ==
  /\ currentQIndex' = 0
  /\ totalScore' = 0
  /\ recentScore' = 0
  /\ qGen' = started.gen
  /\ IF displaysFirst(started.gen)
     THEN displayCurrentQuestion(<<>>, TRUE)
     ELSE /\ quizRunning' = TRUE
          /\ events' = <<>>
          /\ UNCHANGED <<allScores, finalScoreShown, shownQ, answersEnabled, nextBtnShown>>

\* Mutant: the guard dropped.
returnsEarly_never(running) == FALSE

\* if (!this.quizRunning) return;
returnsEarly(running) == ~running

\* Mutant: a right answer counted twice.
addPoint_twice(points, answerIsRight) == IF answerIsRight THEN points + 2 ELSE points

\* if (answerIsRight) { this.totalScore++; this.playerObj.recentScore++; }
addPoint(points, answerIsRight) == IF answerIsRight THEN points + 1 ELSE points

\* Mutant: the answer buttons left as they are.
answersAfterSelect_untouched(enabled) == enabled

\* allBtns.forEach(button => { button.disabled = true; ... })
answersAfterSelect(enabled) == FALSE

\* Mutant: the next button shown after the last answer too.
nextBtnAfter_always(shown, done) == TRUE

\* if (!genResult.done) { show #next-btn }: whether it is displayed afterwards.
nextBtnAfter(shown, done) == IF done THEN shown ELSE TRUE

\* Mutant: the else branch missing, so no timer is ever set.
timersAfter_never(pending, done) == pending

\* if (!genResult.done) { show #next-btn } else { setTimeout(finishQuiz) }:
\* the number of pending timers afterwards.
timersAfter(pending, done) == IF done THEN pending + 1 ELSE pending

\* Quiz.selectAnswer
selectAnswer(chosenAnswer) ==
  /\ lastOp' = <<"selectAnswer", chosenAnswer>>
  /\ UNCHANGED <<perfArgs, perfResult, attempt, fetches, allScores, quizRunning,
                 currentQIndex, shownQ, finalScoreShown>>
  /\ IF returnsEarly(quizRunning)
     THEN UNCHANGED <<allQuestions, totalScore, recentScore, qGen, timers,
                      answersEnabled, nextBtnShown, logged, events>>
     ELSE IF currentQIndex >= Len(allQuestions)
     THEN \* currentQ is undefined: currentQ.validateAnswer throws a TypeError
          UNCHANGED <<allQuestions, totalScore, recentScore, qGen, timers,
                      answersEnabled, nextBtnShown, logged, events>>
     ELSE LET currentQ == allQuestions[currentQIndex + 1]
              answerIsRight == validateAnswer(currentQ, chosenAnswer)
          IN /\ totalScore' = addPoint(totalScore, answerIsRight)
             /\ recentScore' = addPoint(recentScore, answerIsRight)
             /\ answersEnabled' = answersAfterSelect(answersEnabled)
             /\ events' = Append(events, EvScored(currentQ, shownQ, chosenAnswer))
             /\ \E genResult \in genNext(qGen, allQuestions, chosenAnswer) :
                  /\ qGen' = genResult.gen
                  /\ allQuestions' = genResult.qs
                  /\ logged' = genResult.log
                  /\ nextBtnShown' = nextBtnAfter(nextBtnShown, genResult.gen.state = "done")
                  /\ timers' = timersAfter(timers, genResult.gen.state = "done")

\* Quiz.moveToNextQ
moveToNextQ ==
  /\ lastOp' = <<"moveToNextQ">>
  /\ currentQIndex' = currentQIndex + 1
  /\ UNCHANGED <<perfArgs, perfResult, attempt, fetches, allQuestions, totalScore, recentScore,
                 qGen, timers, logged>>
  /\ displayCurrentQuestion(events, quizRunning)

\* Mutant: setInterval in place of setTimeout, so the callback stays armed.
Timeout_repeats ==
  /\ timers > 0
  /\ timers' = timers
  /\ lastOp' = <<"timeout">>
  /\ UNCHANGED <<calls, perfArgs, perfResult, attempt, fetches, allQuestions, totalScore, recentScore,
                 qGen, currentQIndex, logged, shownQ, answersEnabled, nextBtnShown>>
  /\ finishQuiz(events)

\* The callback of setTimeout(() => this.finishQuiz(), 1200).
Timeout ==
  /\ timers > 0
  /\ timers' = timers - 1
  /\ lastOp' = <<"timeout">>
  /\ UNCHANGED <<calls, perfArgs, perfResult, attempt, fetches, allQuestions, totalScore, recentScore,
                 qGen, currentQIndex, logged, shownQ, answersEnabled, nextBtnShown>>
  /\ finishQuiz(events)

\* Quiz.restartQuiz up to its await: hide the final score, start the fetch.
restartQuiz ==
  /\ attempt + fetches < MaxAttempts
  /\ lastOp' = <<"restartQuiz">>
  /\ finalScoreShown' = FALSE
  /\ fetches' = fetches + 1
  /\ UNCHANGED <<perfArgs, perfResult, obsVars, allQuestions, currentQIndex, totalScore,
                 quizRunning, recentScore, allScores, qGen, timers, shownQ,
                 answersEnabled, nextBtnShown>>

\* fetchQuestionsFromAPI returned true with the batch b, and the awaiting
\* QuizApp.init / Quiz.restartQuiz went on in the same turn: a new
\* generator, then initializeQuiz.
FetchResolve(b) ==
  /\ fetches > 0
  /\ attempt < MaxAttempts
  /\ fetches' = fetches - 1
  /\ attempt' = attempt + 1
  /\ lastOp' = <<"initializeQuiz">>
  /\ allQuestions' = b
  /\ logged' = NoLog
  /\ \E started \in genNext(quizFlowGenerator, b, NoAnswer) : initializeQuiz(started)
  /\ UNCHANGED <<calls, perfArgs, perfResult, timers>>

\* fetchQuestionsFromAPI returned false (fetch or json() threw) or undefined
\* (no results field): only the loading text changes.
FetchFail ==
  /\ fetches > 0
  /\ fetches' = fetches - 1
  /\ lastOp' = <<"fetchFailed">>
  /\ UNCHANGED <<calls, perfArgs, perfResult, obsVars, domVars, allQuestions, currentQIndex, totalScore,
                 quizRunning, recentScore, allScores, qGen, timers>>

\* ------------------------------------------------- the page (clicks gated)
\* A click on one of the answer buttons built by displayCurrentQuestion.
ClickAnswer(option) ==
  /\ answersEnabled
  /\ option \in answerChoices(shownQ)
  /\ selectAnswer(option)
  /\ UNCHANGED calls

\* A click on #next-btn.
ClickNext ==
  /\ nextBtnShown
  /\ moveToNextQ
  /\ UNCHANGED calls

\* A click on #restart-btn, which belongs to the final-score panel.
ClickRestart ==
  /\ finalScoreShown
  /\ restartQuiz
  /\ UNCHANGED calls

\* The batches a fetch can return for the attempt about to start.
fetched == { b \in Batches : Len(b) <= (IF attempt = 0 THEN MaxQ ELSE MaxQRestart) }

Next ==
  \/ \E b \in fetched : FetchResolve(b)
  \/ FetchFail
  \/ \E option \in Choices : ClickAnswer(option)
  \/ ClickNext
  \/ Timeout
  \/ ClickRestart

\* Every handler of the page leaves the SpecCalc variables alone.
Spec == Init /\ [][Next]_vars

\* The timer callback runs once its delay has elapsed.
FairSpec == Spec /\ WF_vars(Timeout)

\* ------------------------------------- the handlers called in any order
\* this.selectAnswer(option) from any caller.
CallSelectAnswer(option) ==
  /\ calls < MaxCalls
  /\ calls' = calls + 1
  /\ selectAnswer(option)

\* this.moveToNextQ() from any caller.
CallMoveToNextQ ==
  /\ calls < MaxCalls
  /\ calls' = calls + 1
  /\ moveToNextQ

\* this.restartQuiz() from any caller.
CallRestartQuiz ==
  /\ calls < MaxCalls
  /\ calls' = calls + 1
  /\ restartQuiz

NextCalls ==
  \/ \E b \in { x \in Batches : Len(x) <= MaxQCalls } : FetchResolve(b)
  \/ FetchFail
  \/ \E option \in 0..MaxQCalls : CallSelectAnswer(option)
  \/ CallMoveToNextQ
  \/ Timeout
  \/ CallRestartQuiz

SpecCalls == Init /\ [][NextCalls]_vars

\* --------------------------------------- calculateDificultyLevel on its own
\* calculateDificultyLevel(correctCount / qIndex) for a generator that has
\* counted correctCount right answers out of qIndex > 0.
CalcDifficulty(correctCount, qIndex) ==
  /\ perfArgs' = <<correctCount, qIndex>>
  /\ perfResult' = calculateDificultyLevel(correctCount, qIndex)
  /\ UNCHANGED <<progVars, domVars, obsVars, lastOp, calls>>

NextCalc ==
  \E qIndex \in 1..MaxAnswered : \E correctCount \in 0..qIndex :
    CalcDifficulty(correctCount, qIndex)

SpecCalc == Init /\ [][NextCalc]_vars

\* ----------------------------------------- recordQuizAttempt on its own
\* playerObj.recordQuizAttempt(pointsEarned, totalPoints)
RecordAttempt(pointsEarned, totalPoints) ==
  /\ Len(allScores) < MaxRecords
  /\ allScores' = pushAttempt(allScores, recordQuizAttempt(pointsEarned, totalPoints))
  /\ lastOp' = <<"recordQuizAttempt">>
  /\ UNCHANGED <<allQuestions, currentQIndex, totalScore, quizRunning, recentScore,
                 qGen, timers, fetches, domVars, obsVars, calls, calcVars>>

NextRecord ==
  \E totalPoints \in 1..MaxTotal : \E pointsEarned \in 0..totalPoints :
    RecordAttempt(pointsEarned, totalPoints)

SpecRecord == Init /\ [][NextRecord]_vars

\* ============================================================ properties
\* What the attempt has shown so far, read off the event list.
scoredAt == { i \in 1..Len(events) : events[i].type = "answerScored" }
answeredCount == Cardinality(scoredAt)
completes == Cardinality({ i \in 1..Len(events) : events[i].type = "quizComplete" })

\* The question of the batch that was rendered under the identity id.
questionById(id) ==
  CHOOSE q \in { allQuestions[i] : i \in 1..Len(allQuestions) } : q.id = id

\* The answers that were the correct choice of the question on display when
\* they were clicked.
validatedTrue ==
  Cardinality({ i \in scoredAt : events[i].answer = questionById(events[i].shown).correctAns })

AllAnswered == Len(allQuestions) > 0 /\ answeredCount = Len(allQuestions)

CompletedOnce ==
  /\ ~quizRunning
  /\ completes = 1
  /\ events[Len(events)].type = "quizComplete"
  /\ events[Len(events)].total = Len(allQuestions)
  /\ Len(allScores) > 0
  /\ allScores[Len(allScores)].total = Len(allQuestions)

countIn(q, s) == Cardinality({ i \in 1..Len(s) : s[i] = q })
isPermutation(s, t) ==
  /\ Len(s) = Len(t)
  /\ \A i \in 1..Len(s) : countIn(s[i], s) = countIn(s[i], t)

\* C1: on a non-empty batch, once every question has been answered the quiz
\* reaches Complete (quizRunning = false); finishQuiz runs once for the
\* attempt, never twice, and reports total = len(batch).
C1_AnswerAllThenComplete ==
  /\ AllAnswered ~> CompletedOnce
  /\ [](completes <= 1)
  /\ [](completes = 1 => (AllAnswered /\ CompletedOnce))

C1_Witness ==
  /\ CompletedOnce
  /\ attempt = 2
  /\ Len(allQuestions) = 2
  /\ answeredCount = 2
  /\ Len(allScores) = 2
  /\ allScores[1].total = 3

\* C2: when the attempt completes, the score recorded (and shown) is the
\* number of submitted answers that were the correct choice of the question
\* on display at the time.
C2_ScoreCountsValidatedAnswers ==
  completes > 0 =>
    /\ allScores[Len(allScores)].score = validatedTrue
    /\ events[Len(events)].score = validatedTrue
    /\ totalScore = validatedTrue

C2_Witness ==
  /\ completes = 1
  /\ Len(allQuestions) = 3
  /\ validatedTrue = 2
  /\ allScores[Len(allScores)].score = 2
  /\ allQuestions[2].id = 3

\* C3 as claimed: score <= position <= len(batch) in every reachable state.
C3_ScoreLePositionLeLen ==
  /\ totalScore <= currentQIndex
  /\ currentQIndex <= Len(allQuestions)

\* C3 amended: score <= position + 1 and position <= len(batch) in every
\* reachable state, and score <= position whenever the current question has
\* not been answered yet.
C3_ScoreLePositionPlusOne ==
  /\ totalScore <= currentQIndex + 1
  /\ currentQIndex <= Len(allQuestions)
  /\ answeredCount <= currentQIndex => totalScore <= currentQIndex

C3_Witness ==
  /\ totalScore = 2
  /\ currentQIndex = 1
  /\ answeredCount = 2
  /\ nextBtnShown

\* C4: a start with a batch of zero questions leaves position, score, the
\* running flag and the loaded batch as they were, and does not leave the
\* quiz running with no question.
C4_EmptyStartKeepsSession ==
  [][(attempt' = attempt + 1 /\ Len(allQuestions') = 0) =>
       /\ UNCHANGED <<currentQIndex, totalScore, quizRunning, allQuestions>>
       /\ ~quizRunning']_vars

\* C5 as claimed: no reachable state has every question answered and
\* quizRunning still true.
C5_LastAnswerCompletes == AllAnswered => ~quizRunning

\* C5 amended: once every question has been answered, either quizRunning is
\* still true with exactly one finalize timer pending and nothing completed,
\* or the timer has run: quizRunning is false and the attempt completed once.
C5_LastAnswerArmsFinalize ==
  AllAnswered =>
    \/ quizRunning /\ timers = 1 /\ completes = 0
    \/ ~quizRunning /\ timers = 0 /\ completes = 1

C5_Witness ==
  /\ AllAnswered
  /\ quizRunning
  /\ timers = 1
  /\ Len(allQuestions) = 3
  /\ lastOp[1] = "selectAnswer"

\* C6: within an attempt every step keeps the batch a permutation of itself
\* (same length, same questions, same counts), and the tail behind the
\* answers scored so far is a permutation of what it was.
C6_ReorderKeepsMultiset ==
  [][attempt' = attempt =>
       /\ isPermutation(allQuestions', allQuestions)
       /\ answeredCount' <= Len(allQuestions) =>
            isPermutation(sliceFrom(allQuestions', answeredCount'),
                          sliceFrom(allQuestions, answeredCount'))]_vars

C6_Witness ==
  /\ Len(allQuestions) = 3
  /\ answeredCount = 1
  /\ logged.answered = 1
  /\ allQuestions[2].id = 3
  /\ allQuestions[3].id = 2

\* C7: after a reorder, in the tail behind the answers scored, no question
\* of another difficulty stands before a question of the target difficulty;
\* the target is the one for correct/answered after the answer just scored.
C7_TargetDifficultyFirst ==
  logged.target # "none" =>
    /\ \A i \in (logged.answered + 1)..Len(allQuestions) :
         \A j \in (i + 1)..Len(allQuestions) :
           ~(/\ allQuestions[i].difficultyLevel # logged.target
             /\ allQuestions[j].difficultyLevel = logged.target)
    /\ answeredCount = logged.answered =>
         /\ logged.correct = validatedTrue
         /\ (logged.target = "hard") = (10 * validatedTrue > 7 * answeredCount)
         /\ (logged.target = "easy") = (10 * validatedTrue <= 4 * answeredCount)

C7_Witness ==
  /\ Len(allQuestions) = 3
  /\ logged.answered = 1
  /\ logged.target = "hard"
  /\ allQuestions[2].difficultyLevel = "hard"
  /\ allQuestions[3].difficultyLevel = "easy"
  /\ allQuestions[2].id = 3

\* C8: within an attempt no step changes the question stored at an index
\* that has been answered, and no step changes the length of the batch.
C8_AnsweredHeadIsFixed ==
  [][attempt' = attempt =>
       /\ Len(allQuestions') = Len(allQuestions)
       /\ \A i \in 1..answeredCount' :
            i <= Len(allQuestions) => allQuestions'[i] = allQuestions[i]]_vars

C8_Witness ==
  /\ Len(allQuestions) = 3
  /\ answeredCount = 2
  /\ logged.answered = 2
  /\ allQuestions[1].id = 1
  /\ allQuestions[2].id = 3

\* C9: the target is hard exactly when correct/answered > 7/10, medium
\* exactly when 4/10 < correct/answered <= 7/10, easy otherwise; exactly
\* 7/10 gives medium, exactly 4/10 gives easy and 0 gives easy.
C9_StrictThresholds ==
  LET correct == perfArgs[1]
      answered == perfArgs[2]
  IN /\ (perfResult = "hard") = (10 * correct > 7 * answered)
     /\ (perfResult = "medium") = (10 * correct > 4 * answered /\ 10 * correct <= 7 * answered)
     /\ (perfResult = "easy") = (10 * correct <= 4 * answered)
     /\ 10 * correct = 7 * answered => perfResult = "medium"
     /\ 10 * correct = 4 * answered => perfResult = "easy"
     /\ correct = 0 => perfResult = "easy"

C9_Witness ==
  /\ perfArgs = <<7, 10>>
  /\ perfResult = "medium"

\* C10: selectAnswer called while quizRunning is false changes no field of
\* the quiz or the player, does not advance the generator, arms no timer,
\* touches nothing on the page and shows nothing.
C10_SelectAnswerIgnoredWhenStopped ==
  [][(lastOp'[1] = "selectAnswer" /\ ~quizRunning) =>
       UNCHANGED <<progVars, domVars, obsVars>>]_vars

C10_Witness ==
  /\ lastOp[1] = "selectAnswer"
  /\ ~quizRunning
  /\ Len(allScores) > 0
  /\ currentQIndex < Len(allQuestions)
  /\ qGen.state = "suspended"

\* --------------------------------------------------------------- C11
\* C11: when a finished session is restarted with a new batch, the step that
\* starts the new attempt leaves the position at 0, the score at 0, the quiz
\* running, the generator's counters (answered, correct) at 0 and the
\* player's current score at 0, and it leaves every history entry as it was.
C11_RestartResetsKeepsHistory ==
  [][(attempt >= 1 /\ attempt' = attempt + 1)
       => /\ currentQIndex' = 0
          /\ totalScore' = 0
          /\ quizRunning'
          /\ recentScore' = 0
          /\ qGen'.qIndex = 0
          /\ qGen'.correctCount = 0
          /\ qGen'.state \in {"suspended", "done"}
          /\ events' = (IF allQuestions' = <<>> THEN <<>>
                         ELSE <<EvReady(allQuestions'[1])>>)
          /\ allScores' = allScores]_vars

\* A second attempt has just started on a non-empty batch after a first one
\* that earned points; its entry is still in the history.
C11_Witness ==
  /\ attempt = 2
  /\ lastOp = <<"initializeQuiz">>
  /\ Len(allQuestions) = MaxQRestart
  /\ currentQIndex = 0 /\ totalScore = 0 /\ quizRunning
  /\ Len(allScores) = 1
  /\ allScores[1].score >= 1

\* --------------------------------------------------------------- C12
\* C12: the player's history is append-only: whatever step is taken, the
\* history before the step is a prefix of the history after it.
C12_HistoryAppendOnly ==
  [][/\ Len(allScores') >= Len(allScores)
     /\ SubSeq(allScores', 1, Len(allScores)) = allScores]_vars

\* Two attempts were recorded, with different scores, the older one first.
C12_Witness ==
  /\ Len(allScores) = 2
  /\ allScores[1].score = MaxQ
  /\ allScores[2].score = 0
  /\ ~quizRunning

\* --------------------------------------------------------------- C13
\* C13 (as stated): every entry recordQuizAttempt appends for
\* 0 <= score <= total, total > 0, has the percentage score/total*100 rounded
\* to the nearest integer, a half rounded up.  The code's doubles give 57 for
\* (23, 40), where the percentage is exactly 57.5.
C13_PercentageRoundsHalfUp ==
  \A i \in 1..Len(allScores) :
    allScores[i].total > 0
      => allScores[i].percentage
           = (200 * allScores[i].score + allScores[i].total) \div (2 * allScores[i].total)

\* --------------------------------------------------------------- C14
\* The identities of the questions an answer was scored for.
scoredIds(evs) ==
  { evs[i].q : i \in { j \in 1..Len(evs) : evs[j].type = "answerScored" } }

eventTypeAt(i, n) ==
  IF i > 2 * n THEN "quizComplete"
  ELSE IF i % 2 = 1 THEN "questionReady" ELSE "answerScored"

\* C15: the events of an attempt are questionReady(q1), answerScored(q1),
\* ..., questionReady(qn), answerScored(qn), quizComplete, in this order,
\* each answerScored for the question readied just before it and qk the k-th
\* question of the batch; after quizComplete no event follows until the next
\* attempt starts.
C15_EventOrder ==
  /\ [](/\ Len(events) <= 2 * Len(allQuestions) + 1
        /\ Len(allQuestions) = 0 => events = <<>>
        /\ \A i \in 1..Len(events) :
             /\ events[i].type = eventTypeAt(i, Len(allQuestions))
             /\ events[i].type = "questionReady"
                  => events[i].q = allQuestions[(i + 1) \div 2].id
             /\ events[i].type = "answerScored"
                  => (events[i].q = events[i - 1].q /\ events[i].shown = events[i].q))
  /\ [][(completes > 0 /\ attempt' = attempt) => events' = events]_vars

\* A whole attempt over MaxQ questions: 2 * MaxQ + 1 events, the last one
\* quizComplete.
C15_Witness ==
  /\ Len(allQuestions) = MaxQ
  /\ Len(events) = 2 * MaxQ + 1
  /\ events[Len(events)].type = "quizComplete"
  /\ events[2 * MaxQ].type = "answerScored"
  /\ events[2 * MaxQ - 1].type = "questionReady"

\* --------------------------------------------------------------- C16
\* C16: the question presented after an answer has the target difficulty
\* (hard above 0.7 of the answers right, medium above 0.4, else easy) whenever
\* a question of that difficulty was among the unanswered ones.
C16_NextHasTargetDifficulty ==
  (lastOp = <<"moveToNextQ">> /\ quizRunning)
    => LET target == calculateDificultyLevel(validatedTrue, answeredCount)
       IN /\ shownQ = allQuestions[currentQIndex + 1]
          /\ answeredCount = currentQIndex
          /\ (\E i \in (currentQIndex + 1)..Len(allQuestions) :
                allQuestions[i].difficultyLevel = target)
               => shownQ.difficultyLevel = target

\* The batch arrived as [easy, medium, hard]; the first answer was right, and
\* the hard question, third in the batch, is the one presented second.
C16_Witness ==
  /\ lastOp = <<"moveToNextQ">>
  /\ quizRunning
  /\ currentQIndex = 1
  /\ totalScore = 1
  /\ Len(allQuestions) = 3
  /\ allQuestions[1].id = 1 /\ allQuestions[1].difficultyLevel = "easy"
  /\ shownQ.id = 3 /\ shownQ.difficultyLevel = "hard"
  /\ allQuestions[3].id = 2 /\ allQuestions[3].difficultyLevel = "medium"

C18_GeneratorAgreesWithQuiz ==
  /\ qGen.correctCount = totalScore
  /\ totalScore = recentScore
  /\ qGen.qIndex = answeredCount
  /\ qGen.qIndex \in {currentQIndex, currentQIndex + 1}
  /\ qGen.state = "suspended" => qGen.q = allQuestions[qGen.qIndex + 1]
  /\ answersEnabled => /\ qGen.state = "suspended"
                       /\ qGen.qIndex = currentQIndex
                       /\ qGen.q = allQuestions[currentQIndex + 1]
                       /\ qGen.q = shownQ
  /\ \A i \in scoredAt : events[i].q = events[i].shown

\* Two answers scored, one of them right, the next button not clicked yet:
\* the generator is one question ahead of the position.
C18_Witness ==
  /\ quizRunning
  /\ qGen.state = "suspended"
  /\ qGen.qIndex = 2
  /\ currentQIndex = 1
  /\ qGen.correctCount = 1
  /\ totalScore = 1
  /\ recentScore = 1
  /\ nextBtnShown

\* --------------------------------------------------------------- C19
\* C19: every attempt contributes exactly one history entry: finishQuiz runs
\* at most once per attempt (while its timer is pending the next button is
\* hidden, so the path through an index past the end cannot run as well), an
\* entry is appended exactly when the attempt completes, a new attempt starts
\* only after the one before has completed, and so the history is as long as
\* the number of attempts that have completed.
C19_OneEntryPerAttempt ==
  /\ [](/\ completes <= 1
        /\ timers <= 1
        /\ timers = 1 => (completes = 0 /\ ~nextBtnShown /\ ~answersEnabled)
        /\ Len(allScores) = (IF attempt = 0 THEN 0 ELSE attempt - 1 + completes))
  /\ [][/\ Len(allScores') # Len(allScores)
          => (/\ Len(allScores') = Len(allScores) + 1
              /\ attempt' = attempt
              /\ completes = 0 /\ completes' = 1
              /\ timers = 1 /\ timers' = 0)
        /\ attempt' # attempt
          => (/\ attempt' = attempt + 1
              /\ attempt = 0 \/ completes = 1
              /\ timers = 0)]_vars

\* The second attempt, over a single question, has completed: two attempts,
\* two entries.
C19_Witness ==
  /\ attempt = 2
  /\ Len(allQuestions) = 1
  /\ completes = 1
  /\ ~quizRunning
  /\ timers = 0
  /\ Len(allScores) = 2
  /\ allScores[2].total = 1

====
